---- MODULE Spec2Model ----
(***************************************************************************)
(* The access control store of src/api/app.py: the credential table        *)
(* (.user_uuids), the disabled set (.disabled_users), the token registry   *)
(* (one file per subscription token), the traffic totals (totals.json) and *)
(* the downstream configuration (config.json), mutated by request handlers *)
(* that run concurrently in several workers and serialise through an       *)
(* exclusive flock on .api.lock.                                           *)
(*                                                                         *)
(* Every handler is split at its accesses to shared files, so that the     *)
(* interleavings of concurrent handlers are those of the program.  Local   *)
(* Python variables of a handler are per-worker variables of the model.    *)
(***************************************************************************)
EXTENDS Integers, Sequences, FiniteSets, TLC

\* ------------------------------------------------------------------ bounds

\* Number of concurrent request-handling workers (gunicorn workers).
NumWorkers == 2
\* Size of the pool the random identifiers (uuid4) are drawn from.
MaxUuids == 3
\* Size of the pool the random tokens (secrets.token_hex) are drawn from.
MaxTokens == 3

\* Longest accepted username (create_user).
MaxUsernameLen == 32

Workers == 1..NumWorkers
Uuids == 1..MaxUuids
Tokens == 1..MaxTokens

\* No lock holder, no identifier, no token (None).
NoWorker == 0
NoUuid == 0
NoToken == 0

\* ------------------------------------------------------------- usernames
\* A username is a sequence of characters.  Alphabet lists the characters
\* the model uses in code-point order (str comparison, sorted()).
Alphabet == <<" ", "!", "-", "_", "a", "b">>

Ord(c) == CHOOSE i \in 1..Len(Alphabet) : Alphabet[i] = c

\* str.isalnum() of one character.
AlnumChars == {"a", "b"}

\* Characters str.strip() removes.
Whitespace == {" "}

RECURSIVE Remove(_, _)
\* s.replace(c, "") for a one-character c.
Remove(s, c) ==
    IF s = <<>> THEN <<>>
    ELSE IF Head(s) = c THEN Remove(Tail(s), c)
    ELSE <<Head(s)>> \o Remove(Tail(s), c)

RECURSIVE LStrip(_)
LStrip(s) ==
    IF s # <<>> /\ Head(s) \in Whitespace THEN LStrip(Tail(s)) ELSE s

RECURSIVE RStrip(_)
RStrip(s) ==
    IF s # <<>> /\ s[Len(s)] \in Whitespace
    THEN RStrip(SubSeq(s, 1, Len(s) - 1)) ELSE s

\* str.strip()
Strip(s) == RStrip(LStrip(s))

\* str.isalnum(): non-empty and every character alphanumeric.
IsAlnum(s) == s # <<>> /\ \A i \in 1..Len(s) : s[i] \in AlnumChars

\* The three checks of create_user on the stripped username, in order.
ValidUsername(username) ==
    /\ username # <<>>
    /\ Len(username) <= MaxUsernameLen
    /\ IsAlnum(Remove(Remove(username, "_"), "-"))

RECURSIVE NameLess(_, _)
\* Python's str order: lexicographic by code point.
NameLess(a, b) ==
    IF a = <<>> THEN b # <<>>
    ELSE IF b = <<>> THEN FALSE
    ELSE IF Head(a) = Head(b) THEN NameLess(Tail(a), Tail(b))
    ELSE Ord(Head(a)) < Ord(Head(b))

RECURSIVE Sorted(_)
\* sorted(S) of a set of names.
Sorted(S) ==
    IF S = {} THEN <<>>
    ELSE LET m == CHOOSE x \in S : \A y \in S \ {x} : NameLess(x, y)
         IN <<m>> \o Sorted(S \ {m})

LongName == [i \in 1..(MaxUsernameLen + 1) |-> "a"]

\* The request bodies POST /api/users is tried with.
RawUsernames ==
    { <<"a">>, <<"b">>, <<" ", "b">>, <<>>, <<" ">>, <<"_">>, <<"a", "!">>,
      LongName }

\* The names DELETE/disable/enable/reset are tried with (URL path segment).
UrlNames == { <<"a">>, <<"b">> }

Range(s) == { s[i] : i \in 1..Len(s) }

\* --------------------------------------------------------------- the files

\* .user_uuids is a set of lines <<name, uid>> ("name:uid").
\* read_uuids: the dict {username: uuid} of the lines.
ReadUuids(file) ==
    [n \in { l[1] : l \in file } |-> CHOOSE u \in Uuids : <<n, u>> \in file]

\* write_uuids: one line per item of the dict, the file rewritten in full.
WriteUuids(uuids) == { <<n, uuids[n]>> : n \in DOMAIN uuids }

\* A membership test that never finds the key.
DictHasNever(d, k) == FALSE

\* username in uuids
DictHas(d, k) == k \in DOMAIN d

\* uuids[username] = user_uuid
DictSet(d, k, v) == [x \in DOMAIN d \cup {k} |-> IF x = k THEN v ELSE d[x]]

\* del uuids[name]; totals.pop(name, None)
DictDel(d, k) == [x \in DOMAIN d \ {k} |-> d[x]]

\* .disabled_users is a sequence of lines; read_disabled is their set.
ReadDisabled(file) == Range(file)

\* A write_disabled that truncates the file and writes no line.
WriteDisabledNothing(disabled) == <<>>

\* write_disabled: the names sorted, one per line.
WriteDisabled(disabled) == Sorted(disabled)

\* config.json: Corrupt (json.loads raises) or a list of inbounds; an inbound
\* has a protocol, may carry realitySettings, and has a client list.
Corrupt == [parses |-> FALSE, inbounds |-> <<>>]

Inbound(protocol, reality) ==
    [protocol |-> protocol, reality |-> reality, clients |-> {}]

Config(inbounds) == [parses |-> TRUE, inbounds |-> inbounds]

\* The configurations the store may be started on.
ConfigShapes ==
    { Corrupt,
      Config(<<Inbound("vless", TRUE)>>),
      Config(<<Inbound("vless", FALSE)>>),
      Config(<<Inbound("other", TRUE)>>) }

\* The least index of a set of indices, or 0 (the loop found nothing).
FirstOf(hits) ==
    IF hits = {} THEN 0 ELSE CHOOSE i \in hits : \A j \in hits : i <= j

\* inbound.get("protocol") == "vless"
IsVless(inbound) == inbound.protocol = "vless"

\* inbound.get("streamSettings", {}).get("realitySettings")
HasReality(inbound) == inbound.reality

\* for inbound in cfg.get("inbounds", []): the first vless inbound.
FirstVless(inbounds) ==
    FirstOf({ i \in 1..Len(inbounds) : IsVless(inbounds[i]) })

\* for inbound in cfg.get("inbounds", []): the first with realitySettings.
FirstReality(inbounds) ==
    FirstOf({ i \in 1..Len(inbounds) : HasReality(inbounds[i]) })

\* An active list in which every user gets the identifier of one user.
ActiveUuidsOneId(uuids, disabled) ==
    [n \in DOMAIN uuids \ disabled |->
        uuids[CHOOSE m \in DOMAIN uuids : TRUE]]

\* rebuild_xray_config: the dict of the users that are not disabled.
ActiveUuids(uuids, disabled) ==
    [n \in DOMAIN uuids \ disabled |-> uuids[n]]

\* rebuild_xray_config: one client record per active user.
Clients(active) == { [id |-> active[n], email |-> n] : n \in DOMAIN active }

\* A rebuild that adds the active users to the client list it finds.
RebuildConfigAppends(cfg, uuids, disabled) ==
    LET i == FirstVless(cfg.inbounds)
    IN IF i = 0 THEN cfg
       ELSE [cfg EXCEPT !.inbounds[i].clients =
                            @ \cup Clients(ActiveUuids(uuids, disabled))]

\* rebuild_xray_config on a configuration that parses: the client list of
\* the first vless inbound is replaced, everything else is kept; with no
\* vless inbound the configuration is written back as it was read.
RebuildConfig(cfg, uuids, disabled) ==
    LET i == FirstVless(cfg.inbounds)
    IN IF i = 0 THEN cfg
       ELSE [cfg EXCEPT !.inbounds[i].clients =
                            Clients(ActiveUuids(uuids, disabled))]

\* build_vless_link on a configuration that parses: the link, which embeds
\* the identifier and carries the username as its label, or None when no
\* inbound has realitySettings.
NoLink == [uuid |-> 0, label |-> <<>>]

BuildVlessLink(cfg, username, user_uuid) ==
    IF FirstReality(cfg.inbounds) = 0 THEN NoLink
    ELSE [uuid |-> user_uuid, label |-> username]

\* A lookup that finds no token.
FindNoToken(uuidsF, subs, username) == {}

\* find_subscription_token: the tokens whose decoded descriptor contains the
\* user's identifier (iterdir yields them in no defined order, the first one
\* met is returned); none when the user is unknown.  An identifier is 36
\* characters and a label at most 32, so containment is the embedded
\* identifier being the user's.
FindSubscriptionTokens(uuidsF, subs, username) ==
    LET uuids == ReadUuids(uuidsF)
    IN IF username \notin DOMAIN uuids THEN {}
       ELSE { t \in DOMAIN subs : subs[t].uuid = uuids[username] }

\* uuid.uuid4() / secrets.token_hex(16): a random value that collides with
\* none held by a file or a handler (a collision has negligible probability
\* and the code does not check for one).  The values are compared for
\* equality only, so the draws differ by a renaming: the least unused value
\* of the pool stands for all of them.
FreshFrom(pool, used) ==
    { v \in pool \ used : \A x \in pool \ used : v <= x }

\* ------------------------------------------------------------------ state

VARIABLES
    uuidsFile,      \* .user_uuids: the lines <<name, uid>>
    disabledFile,   \* .disabled_users: the lines, in file order
    subFiles,       \* SUB_DIR: token -> decoded descriptor
    totalsFile,     \* totals.json: name -> {up, dn, last_seen}
    configFile,     \* config.json
    lock,           \* the worker holding the flock on .api.lock, or NoWorker
    pc,             \* each worker's position in its handler
    op,             \* the handler the worker runs
    name,           \* its username argument
    uuids,          \* its local dict uuids
    disabled,       \* its local set disabled
    user_uuid,      \* create_user's user_uuid
    token,          \* create_user's token
    outcome,        \* the response the handler is going to return
    snap,           \* the files as they were when the worker took the lock
    issued          \* name -> the identifier returned by the create_user
                    \* that issued it, until a delete_user removes the name

files == <<uuidsFile, disabledFile, subFiles, totalsFile, configFile>>
locals == <<op, name, uuids, disabled, user_uuid, token, outcome>>
vars == <<uuidsFile, disabledFile, subFiles, totalsFile, configFile, lock, pc,
          op, name, uuids, disabled, user_uuid, token, outcome, snap, issued>>

EmptyDict == [x \in {} |-> 0]
NoName == <<>>
NoSnap == [taken |-> FALSE]

\* The parts of the store a mutation is answerable for (the traffic totals
\* are also written by the monitoring process).
Snapshot ==
    [taken |-> TRUE, uuidsFile |-> uuidsFile, disabledFile |-> disabledFile,
     subFiles |-> subFiles, configFile |-> configFile]

\* HTTP status of each response.
StatusOf(o) ==
    CASE o = "created" -> 201
      [] o \in {"deleted", "disabled", "enabled", "reset",
                "already_disabled", "already_enabled"} -> 200
      [] o = "invalid" -> 400
      [] o = "not_found" -> 404
      [] o = "conflict" -> 409
      [] o = "error" -> 500
      [] OTHER -> 0

\* Every identifier some file or handler holds.
UsedUuids ==
    { l[2] : l \in uuidsFile }
    \cup { subFiles[t].uuid : t \in DOMAIN subFiles }
    \cup UNION { { c.id : c \in configFile.inbounds[i].clients } :
                 i \in 1..Len(configFile.inbounds) }
    \cup UNION { { uuids[w][n] : n \in DOMAIN uuids[w] } : w \in Workers }
    \cup { user_uuid[w] : w \in Workers }
    \cup { issued[n] : n \in DOMAIN issued }

Init ==
    /\ uuidsFile = {}
    /\ disabledFile = <<>>
    /\ subFiles = EmptyDict
    /\ totalsFile = EmptyDict
    /\ configFile \in ConfigShapes
    /\ lock = NoWorker
    /\ pc = [w \in Workers |-> "idle"]
    /\ op = [w \in Workers |-> "none"]
    /\ name = [w \in Workers |-> NoName]
    /\ uuids = [w \in Workers |-> EmptyDict]
    /\ disabled = [w \in Workers |-> {}]
    /\ user_uuid = [w \in Workers |-> NoUuid]
    /\ token = [w \in Workers |-> NoToken]
    /\ outcome = [w \in Workers |-> "none"]
    /\ snap = [w \in Workers |-> NoSnap]
    /\ issued = [n \in UrlNames |-> NoUuid]

\* ---------------------------------------------------------------- the lock

\* A lock that excludes nobody (a lock taken per worker, or not at all).
LockNotExclusive == TRUE

\* fcntl.flock(fd, LOCK_EX) returns only while no other open file
\* description holds the lock.
LockFree == lock = NoWorker

\* A worker has accepted a request for one of the five locking handlers and
\* is about to call flock.  Which handler and which username the request
\* carries is drawn when the lock is granted: no statement of a handler
\* before its flock reads or writes a file, so its arguments do not matter
\* until then (create_user's validation of the username aside, which
\* returns 400 before the lock: InvalidUsername below).
Enter(w) ==
    /\ pc[w] = "idle"
    /\ pc' = [pc EXCEPT ![w] = "lock"]
    /\ UNCHANGED <<files, locals, lock, snap, issued>>

\* with file_lock(): entry of handler o with username n.
Acquire(w, o, n) ==
    /\ pc[w] = "lock"
    /\ LockFree
    /\ lock' = w
    /\ snap' = [snap EXCEPT ![w] = Snapshot]
    /\ op' = [op EXCEPT ![w] = o]
    /\ name' = [name EXCEPT ![w] = n]
    /\ pc' = [pc EXCEPT ![w] = "read_uuids"]
    /\ UNCHANGED <<files, uuids, disabled, user_uuid, token, outcome, issued>>

\* Every response of the locked region, as if restart_xray() were called in
\* the finally clause.
RestartingAlways ==
    {"created", "deleted", "disabled", "enabled", "reset", "conflict",
     "not_found", "already_disabled", "already_enabled", "error"}

\* Responses after which only create_user and delete_user call restart_xray().
RestartingCreateDelete == {"created", "deleted"}

\* Responses after which the handler goes on to restart_xray().
Restarting == {"created", "deleted", "disabled", "enabled"}

\* A locked region without the finally clause: the handler returns and the
\* lock stays held.
UnlockKeepsLock(w) ==
    /\ pc[w] = "unlock"
    /\ lock' = lock
    /\ snap' = [snap EXCEPT ![w] = NoSnap]
    /\ issued' = IF outcome[w] = "created"
                 THEN [issued EXCEPT ![name[w]] = user_uuid[w]]
                 ELSE issued
    /\ pc' = [pc EXCEPT ![w] = IF outcome[w] \in Restarting
                               THEN "restart" ELSE "idle"]
    /\ op' = [op EXCEPT ![w] = "none"]
    /\ name' = [name EXCEPT ![w] = NoName]
    /\ uuids' = [uuids EXCEPT ![w] = EmptyDict]
    /\ disabled' = [disabled EXCEPT ![w] = {}]
    /\ user_uuid' = [user_uuid EXCEPT ![w] = NoUuid]
    /\ token' = [token EXCEPT ![w] = NoToken]
    /\ outcome' = [outcome EXCEPT ![w] = "none"]
    /\ UNCHANGED files

\* with file_lock(): exit (normal end, return or exception inside the block):
\* the finally clause unlocks.  The handler's response is decided by now; the
\* local variables die with the handler.
Unlock(w) ==
    /\ pc[w] = "unlock"
    /\ lock' = IF lock = w THEN NoWorker ELSE lock
    /\ snap' = [snap EXCEPT ![w] = NoSnap]
    /\ issued' = IF outcome[w] = "created"
                 THEN [issued EXCEPT ![name[w]] = user_uuid[w]]
                 ELSE issued
    /\ pc' = [pc EXCEPT ![w] = IF outcome[w] \in Restarting
                               THEN "restart" ELSE "idle"]
    /\ op' = [op EXCEPT ![w] = "none"]
    /\ name' = [name EXCEPT ![w] = NoName]
    /\ uuids' = [uuids EXCEPT ![w] = EmptyDict]
    /\ disabled' = [disabled EXCEPT ![w] = {}]
    /\ user_uuid' = [user_uuid EXCEPT ![w] = NoUuid]
    /\ token' = [token EXCEPT ![w] = NoToken]
    /\ outcome' = [outcome EXCEPT ![w] = "none"]
    /\ UNCHANGED files

\* restart_xray(): the reload is handed to a daemon thread and the handler
\* returns its response.
RestartXray(w) ==
    /\ pc[w] = "restart"
    /\ pc' = [pc EXCEPT ![w] = "idle"]
    /\ UNCHANGED <<files, locals, lock, snap, issued>>

\* Leaves the locked region with response o.
Leave(w, o) ==
    /\ outcome' = [outcome EXCEPT ![w] = o]
    /\ pc' = [pc EXCEPT ![w] = "unlock"]

\* rebuild_xray_config(uuids, disabled) as the last statement of the locked
\* region: read_config raises on a file that does not parse (the exception
\* leaves the block and the request ends in a 500); otherwise the rebuilt
\* configuration is written and the handler goes on to answer ok.
Rebuild(w, dis, ok) ==
    IF configFile.parses
    THEN /\ configFile' = RebuildConfig(configFile, uuids[w], dis)
         /\ Leave(w, ok)
    ELSE /\ configFile' = configFile
         /\ Leave(w, "error")

\* ------------------------------------------------------------- create_user

\* POST /api/users: username = data.get("username", "").strip(), rejected
\* with 400 before the lock when it fails one of the three checks.
InvalidUsername(w, raw) ==
    /\ pc[w] = "idle"
    /\ ~ValidUsername(Strip(raw))
    /\ op' = [op EXCEPT ![w] = "create_user"]
    /\ outcome' = [outcome EXCEPT ![w] = "invalid"]
    /\ pc' = [pc EXCEPT ![w] = "respond"]
    /\ UNCHANGED <<files, lock, name, uuids, disabled, user_uuid, token, snap,
                   issued>>

\* POST /api/users with a username that passes the checks: the locked region.
CreateUser(w, raw) ==
    /\ pc[w] = "lock"
    /\ ValidUsername(Strip(raw))
    /\ Acquire(w, "create_user", Strip(raw))

\* A response built before the lock is taken (400).
Respond(w) ==
    /\ pc[w] = "respond"
    /\ pc' = [pc EXCEPT ![w] = "idle"]
    /\ op' = [op EXCEPT ![w] = "none"]
    /\ outcome' = [outcome EXCEPT ![w] = "none"]
    /\ UNCHANGED <<files, lock, name, uuids, disabled, user_uuid, token, snap,
                   issued>>

\* uuids = read_uuids(); if username in uuids: return 409
CreateReadUuids(w) ==
    /\ pc[w] = "read_uuids"
    /\ op[w] = "create_user"
    /\ uuids' = [uuids EXCEPT ![w] = ReadUuids(uuidsFile)]
    /\ IF DictHas(uuids'[w], name[w])
       THEN Leave(w, "conflict")
       ELSE /\ pc' = [pc EXCEPT ![w] = "cu_write_uuids"]
            /\ outcome' = outcome
    /\ UNCHANGED <<files, lock, op, name, disabled, user_uuid, token, snap,
                   issued>>

\* user_uuid = str(uuid.uuid4()); uuids[username] = user_uuid;
\* write_uuids(uuids)
CreateWriteUuids(w) ==
    /\ pc[w] = "cu_write_uuids"
    /\ \E u \in FreshFrom(Uuids, UsedUuids) :
          /\ user_uuid' = [user_uuid EXCEPT ![w] = u]
          /\ uuids' = [uuids EXCEPT ![w] = DictSet(uuids[w], name[w], u)]
    /\ uuidsFile' = WriteUuids(uuids'[w])
    /\ pc' = [pc EXCEPT ![w] = "cu_subscription"]
    /\ UNCHANGED <<disabledFile, subFiles, totalsFile, configFile, lock, op,
                   name, disabled, token, outcome, snap, issued>>

\* token = create_subscription_file(username, user_uuid): build_vless_link
\* reads the configuration (and raises when it does not parse); without a
\* link no file is written and the token is None.
CreateSubscriptionFile(w) ==
    /\ pc[w] = "cu_subscription"
    /\ IF ~configFile.parses
       THEN /\ Leave(w, "error")
            /\ UNCHANGED <<subFiles, token>>
       ELSE LET vless == BuildVlessLink(configFile, name[w], user_uuid[w])
            IN IF vless = NoLink
               THEN /\ pc' = [pc EXCEPT ![w] = "cu_rebuild"]
                    /\ UNCHANGED <<subFiles, token, outcome>>
               ELSE /\ \E t \in FreshFrom(Tokens, DOMAIN subFiles) :
                          /\ token' = [token EXCEPT ![w] = t]
                          /\ subFiles' = DictSet(subFiles, t, vless)
                    /\ pc' = [pc EXCEPT ![w] = "cu_rebuild"]
                    /\ outcome' = outcome
    /\ UNCHANGED <<uuidsFile, disabledFile, totalsFile, configFile, lock, op,
                   name, uuids, disabled, user_uuid, snap, issued>>

\* disabled = read_disabled(); rebuild_xray_config(uuids, disabled)
CreateRebuild(w) ==
    /\ pc[w] = "cu_rebuild"
    /\ disabled' = [disabled EXCEPT ![w] = ReadDisabled(disabledFile)]
    /\ Rebuild(w, disabled'[w], "created")
    /\ UNCHANGED <<uuidsFile, disabledFile, subFiles, totalsFile, lock, op,
                   name, uuids, user_uuid, token, snap, issued>>

\* ------------------------------------- delete, disable, enable, reset: entry

\* DELETE /api/users/<name>, POST /api/users/<name>/disable|enable|reset:
\* the locked region.
NameOps == {"delete_user", "disable_user", "enable_user", "reset_traffic"}

Request(w, o, n) == Acquire(w, o, n)

\* The statement that follows the not-found check of each handler.
AfterFound(o) ==
    CASE o = "delete_user" -> "du_unlink"
      [] o = "disable_user" -> "dis_read"
      [] o = "enable_user" -> "en_read"
      [] o = "reset_traffic" -> "rt_totals"

\* uuids = read_uuids(); if name not in uuids: return 404
ReadUuidsOrNotFound(w) ==
    /\ pc[w] = "read_uuids"
    /\ op[w] \in NameOps
    /\ uuids' = [uuids EXCEPT ![w] = ReadUuids(uuidsFile)]
    /\ IF ~DictHas(uuids'[w], name[w])
       THEN Leave(w, "not_found")
       ELSE /\ pc' = [pc EXCEPT ![w] = AfterFound(op[w])]
            /\ outcome' = outcome
    /\ UNCHANGED <<files, lock, op, name, disabled, user_uuid, token, snap,
                   issued>>

\* ------------------------------------------------------------- delete_user

\* token = find_subscription_token(name); if token: unlink its file
DeleteUnlink(w) ==
    /\ pc[w] = "du_unlink"
    /\ LET found == FindSubscriptionTokens(uuidsFile, subFiles, name[w])
       IN IF found = {} THEN subFiles' = subFiles
          ELSE \E t \in found : subFiles' = DictDel(subFiles, t)
    /\ pc' = [pc EXCEPT ![w] = "du_write_uuids"]
    /\ UNCHANGED <<uuidsFile, disabledFile, totalsFile, configFile, lock,
                   locals, snap, issued>>

\* del uuids[name]; write_uuids(uuids)
DeleteWriteUuids(w) ==
    /\ pc[w] = "du_write_uuids"
    /\ uuids' = [uuids EXCEPT ![w] = DictDel(uuids[w], name[w])]
    /\ uuidsFile' = WriteUuids(uuids'[w])
    /\ issued' = [issued EXCEPT ![name[w]] = NoUuid]
    /\ pc' = [pc EXCEPT ![w] = "du_disabled"]
    /\ UNCHANGED <<disabledFile, subFiles, totalsFile, configFile, lock, op,
                   name, disabled, user_uuid, token, outcome, snap>>

\* A discard that removes nothing.
DiscardNothing(set, n) == set

\* set.discard
Discard(set, n) == set \ {n}

\* disabled = read_disabled(); disabled.discard(name);
\* write_disabled(disabled)
DeleteDisabled(w) ==
    /\ pc[w] = "du_disabled"
    /\ disabled' = [disabled EXCEPT
                      ![w] = Discard(ReadDisabled(disabledFile), name[w])]
    /\ disabledFile' = WriteDisabled(disabled'[w])
    /\ pc' = [pc EXCEPT ![w] = "du_totals"]
    /\ UNCHANGED <<uuidsFile, subFiles, totalsFile, configFile, lock, op,
                   name, uuids, user_uuid, token, outcome, snap, issued>>

\* totals = read_totals(); totals.pop(name, None); write_totals(totals)
DeleteTotals(w) ==
    /\ pc[w] = "du_totals"
    /\ totalsFile' = DictDel(totalsFile, name[w])
    /\ pc' = [pc EXCEPT ![w] = "du_rebuild"]
    /\ UNCHANGED <<uuidsFile, disabledFile, subFiles, configFile, lock,
                   locals, snap, issued>>

\* rebuild_xray_config(uuids, disabled)
DeleteRebuild(w) ==
    /\ pc[w] = "du_rebuild"
    /\ Rebuild(w, disabled[w], "deleted")
    /\ UNCHANGED <<uuidsFile, disabledFile, subFiles, totalsFile, lock, op,
                   name, uuids, disabled, user_uuid, token, snap, issued>>

\* ------------------------------------------------ disable_user, enable_user

\* disabled = read_disabled(); if name in disabled: return "already disabled"
DisableRead(w) ==
    /\ pc[w] = "dis_read"
    /\ disabled' = [disabled EXCEPT ![w] = ReadDisabled(disabledFile)]
    /\ IF name[w] \in disabled'[w]
       THEN Leave(w, "already_disabled")
       ELSE /\ pc' = [pc EXCEPT ![w] = "dis_write"]
            /\ outcome' = outcome
    /\ UNCHANGED <<files, lock, op, name, uuids, user_uuid, token, snap,
                   issued>>

\* disabled.add(name); write_disabled(disabled)
DisableWrite(w) ==
    /\ pc[w] = "dis_write"
    /\ disabled' = [disabled EXCEPT ![w] = disabled[w] \cup {name[w]}]
    /\ disabledFile' = WriteDisabled(disabled'[w])
    /\ pc' = [pc EXCEPT ![w] = "dis_rebuild"]
    /\ UNCHANGED <<uuidsFile, subFiles, totalsFile, configFile, lock, op,
                   name, uuids, user_uuid, token, outcome, snap, issued>>

\* rebuild_xray_config(uuids, disabled)
DisableRebuild(w) ==
    /\ pc[w] = "dis_rebuild"
    /\ Rebuild(w, disabled[w], "disabled")
    /\ UNCHANGED <<uuidsFile, disabledFile, subFiles, totalsFile, lock, op,
                   name, uuids, disabled, user_uuid, token, snap, issued>>

\* disabled = read_disabled();
\* if name not in disabled: return "already enabled"
EnableRead(w) ==
    /\ pc[w] = "en_read"
    /\ disabled' = [disabled EXCEPT ![w] = ReadDisabled(disabledFile)]
    /\ IF name[w] \notin disabled'[w]
       THEN Leave(w, "already_enabled")
       ELSE /\ pc' = [pc EXCEPT ![w] = "en_write"]
            /\ outcome' = outcome
    /\ UNCHANGED <<files, lock, op, name, uuids, user_uuid, token, snap,
                   issued>>

\* disabled.discard(name); write_disabled(disabled)
EnableWrite(w) ==
    /\ pc[w] = "en_write"
    /\ disabled' = [disabled EXCEPT ![w] = Discard(disabled[w], name[w])]
    /\ disabledFile' = WriteDisabled(disabled'[w])
    /\ pc' = [pc EXCEPT ![w] = "en_rebuild"]
    /\ UNCHANGED <<uuidsFile, subFiles, totalsFile, configFile, lock, op,
                   name, uuids, user_uuid, token, outcome, snap, issued>>

\* rebuild_xray_config(uuids, disabled)
EnableRebuild(w) ==
    /\ pc[w] = "en_rebuild"
    /\ Rebuild(w, disabled[w], "enabled")
    /\ UNCHANGED <<uuidsFile, disabledFile, subFiles, totalsFile, lock, op,
                   name, uuids, disabled, user_uuid, token, snap, issued>>

\* ----------------------------------------------------------- reset_traffic

\* A reset record that keeps the last-seen time.
StaleTraffic == [up |-> 0, dn |-> 0, last_seen |-> "t"]

ZeroTraffic == [up |-> 0, dn |-> 0, last_seen |-> ""]

\* totals = read_totals(); totals[name] = {"up": 0, "dn": 0, "last_seen": ""};
\* write_totals(totals)
ResetTotals(w) ==
    /\ pc[w] = "rt_totals"
    /\ totalsFile' = DictSet(totalsFile, name[w], ZeroTraffic)
    /\ Leave(w, "reset")
    /\ UNCHANGED <<uuidsFile, disabledFile, subFiles, configFile, lock, op,
                   name, uuids, disabled, user_uuid, token, snap, issued>>

\* -------------------------------------------------- the monitoring process

\* The counters the monitoring process is observed to store.
SeenTraffic == [up |-> 500, dn |-> 300, last_seen |-> "t"]

\* The users whose traffic the monitoring process observes.
TrafficNames == { <<"a">> }

\* The monitoring process (not part of src/) adds the traffic of a user of
\* the credential table to totals.json; it does not take the lock.
Monitor(n) ==
    /\ n \in DOMAIN ReadUuids(uuidsFile)
    /\ totalsFile' = DictSet(totalsFile, n, SeenTraffic)
    /\ UNCHANGED <<uuidsFile, disabledFile, subFiles, configFile, lock, pc,
                   locals, snap, issued>>

\* ------------------------------------------------------------ list_users

\* GET /api/users, taken on one state of the files: for each user of the
\* credential table its status and the tokens get_subscription_url may find
\* (none: subscription_url is null).  It takes no lock and writes nothing.
ListUsers ==
    { [username |-> n,
       status |-> IF n \in ReadDisabled(disabledFile)
                  THEN "disabled" ELSE "active",
       subscription |-> FindSubscriptionTokens(uuidsFile, subFiles, n)] :
      n \in DOMAIN ReadUuids(uuidsFile) }

\* ---------------------------------------------------------- specification

Next ==
    \/ \E w \in Workers : Enter(w)
    \/ \E w \in Workers : \E raw \in RawUsernames :
          InvalidUsername(w, raw) \/ CreateUser(w, raw)
    \/ \E w \in Workers : \E o \in NameOps : \E n \in UrlNames :
          Request(w, o, n)
    \/ \E w \in Workers :
          \/ Respond(w)
          \/ CreateReadUuids(w)
          \/ CreateWriteUuids(w)
          \/ CreateSubscriptionFile(w)
          \/ CreateRebuild(w)
          \/ ReadUuidsOrNotFound(w)
          \/ DeleteUnlink(w)
          \/ DeleteWriteUuids(w)
          \/ DeleteDisabled(w)
          \/ DeleteTotals(w)
          \/ DeleteRebuild(w)
          \/ DisableRead(w)
          \/ DisableWrite(w)
          \/ DisableRebuild(w)
          \/ EnableRead(w)
          \/ EnableWrite(w)
          \/ EnableRebuild(w)
          \/ ResetTotals(w)
          \/ Unlock(w)
          \/ RestartXray(w)
    \/ \E n \in TrafficNames : Monitor(n)

Spec == Init /\ [][Next]_vars

\* ------------------------------------------------------- derived notions

\* The positions between flock(LOCK_EX) and flock(LOCK_UN).
InLock ==
    { "read_uuids", "cu_write_uuids", "cu_subscription", "cu_rebuild",
      "du_unlink", "du_write_uuids", "du_disabled", "du_totals",
      "du_rebuild", "dis_read", "dis_write", "dis_rebuild", "en_read",
      "en_write", "en_rebuild", "rt_totals", "unlock" }

\* No writer is inside the lock: every mutation has completed.
NoWriter == lock = NoWorker /\ \A w \in Workers : pc[w] \notin InLock

\* The credential table, the disabled set as the files hold them now.
Table == ReadUuids(uuidsFile)
DisabledSet == ReadDisabled(disabledFile)

\* The client list of the downstream configuration: the clients of its first
\* vless inbound (none when the file does not parse or has no such inbound).
ClientList(cfg) ==
    LET i == FirstVless(cfg.inbounds)
    IN IF ~cfg.parses \/ i = 0 THEN {} ELSE cfg.inbounds[i].clients

\* The configuration parses and has an inbound of the expected protocol.
Usable(cfg) == cfg.parses /\ FirstVless(cfg.inbounds) # 0

\* The worker is about to leave the locked region of handler o: its file
\* accesses are over and its response is decided.
Leaving(w, o) == pc[w] = "unlock" /\ op[w] = o

\* The credential table as it was when the worker took the lock.
TableBefore(w) == ReadUuids(snap[w].uuidsFile)

\* ------------------------------------------------------------------ claims

\* C1: whenever no writer is inside the lock, the client list of the
\* downstream configuration is exactly the users of the credential table
\* that are not in the disabled set, each with its own identifier.
C1_ClientListInSync ==
    NoWriter => ClientList(configFile) = Clients(ActiveUuids(Table, DisabledSet))

\* C1 on the configurations rebuild_xray_config can rebuild: the client list
\* is in sync whenever no writer is inside the lock.
C1_InSyncWhenUsable ==
    (NoWriter /\ Usable(configFile)) =>
        ClientList(configFile) = Clients(ActiveUuids(Table, DisabledSet))

\* C2: of the create_user calls for one username at most one returns 201 as
\* long as the issued user stands: a call answers 201 only when no issuance
\* of that username stands, the credential table then holds a single line
\* for the username, with the identifier the call returns; a call that finds
\* an issuance standing answers 409.
C2_OneIssuancePerUsername ==
    [][\A w \in Workers :
          (Leaving(w, "create_user") /\ pc'[w] # "unlock") =>
              /\ outcome[w] = "created" =>
                    /\ issued[name[w]] = NoUuid
                    /\ { l \in uuidsFile : l[1] = name[w] }
                           = { <<name[w], user_uuid[w]>> }
              /\ issued[name[w]] # NoUuid => outcome[w] = "conflict"]_vars

\* C2 witness: a create_user is answered 409 for a username whose issuing
\* call has released the lock but has not returned yet.
C2_Witness ==
    \E w1, w2 \in Workers :
        /\ w1 # w2
        /\ pc[w1] = "restart"
        /\ Leaving(w2, "create_user")
        /\ outcome[w2] = "conflict"
        /\ issued[name[w2]] # NoUuid

\* C3 as stated: a create_user for a valid username that was not in the
\* credential table when the call took the lock succeeds, and whenever no
\* writer is inside the lock every issued username is in the credential
\* table with the identifier returned to its caller.
C3_AllIssuancesKept ==
    /\ \A w \in Workers :
          (Leaving(w, "create_user") /\ name[w] \notin DOMAIN TableBefore(w))
              => outcome[w] = "created"
    /\ NoWriter =>
          \A n \in DOMAIN issued :
              issued[n] # NoUuid => <<n, issued[n]>> \in uuidsFile

\* C3 amended: the same, for a downstream configuration that parses.
C3_AllIssuancesKeptIfConfigParses ==
    /\ \A w \in Workers :
          (/\ Leaving(w, "create_user")
           /\ name[w] \notin DOMAIN TableBefore(w)
           /\ configFile.parses)
              => outcome[w] = "created"
    /\ NoWriter =>
          \A n \in DOMAIN issued :
              issued[n] # NoUuid => <<n, issued[n]>> \in uuidsFile

\* C3 witness: two usernames issued by two calls that overlapped (the first
\* has not returned yet), both in the credential table.
C3_Witness ==
    \E w1, w2 \in Workers :
        /\ w1 # w2
        /\ pc[w1] = "restart"
        /\ pc[w2] = "restart"
        /\ \A n \in DOMAIN issued :
              issued[n] # NoUuid /\ <<n, issued[n]>> \in uuidsFile

\* C4: a worker between flock(LOCK_EX) and flock(LOCK_UN) is the one holder
\* of the lock (so at most one worker is there), and every step of a handler
\* that changes the credential table, the disabled set, the token files,
\* the traffic totals or the configuration is taken by the lock's holder.
C4_WritersSerialized ==
    /\ [](\A w \in Workers : pc[w] \in InLock => lock = w)
    /\ [][(\/ <<uuidsFile, disabledFile, subFiles, configFile>>'
                 # <<uuidsFile, disabledFile, subFiles, configFile>>
           \/ (totalsFile' # totalsFile /\ pc' # pc))
          => \E w \in Workers :
                /\ pc[w] # pc'[w]
                /\ pc[w] \in InLock
                /\ lock = w
                /\ lock' = w]_vars

\* C4 witness: one worker is in the middle of delete_user's writes while
\* the other is blocked in flock.
C4_Witness ==
    \E w1, w2 \in Workers :
        /\ pc[w1] = "du_disabled"
        /\ pc[w2] = "lock"
        /\ uuidsFile # snap[w1].uuidsFile

\* C5: whenever no writer is inside the lock, every username of the disabled
\* set is a key of the credential table.
C5_DisabledAreUsers ==
    NoWriter => DisabledSet \subseteq DOMAIN Table

\* C5 witness: a delete_user of a user that was disabled has done its writes.
C5_Witness ==
    \E w \in Workers :
        /\ Leaving(w, "delete_user")
        /\ outcome[w] = "deleted"
        /\ name[w] \in ReadDisabled(snap[w].disabledFile)
        /\ name[w] \notin DisabledSet

\* The handlers that end with rebuild_xray_config.
Rebuilding == {"create_user", "delete_user", "disable_user", "enable_user"}

\* The responses of the early returns inside the locked region.
EarlyReturns ==
    {"conflict", "not_found", "already_disabled", "already_enabled"}

\* C6: with a configuration that does not parse or has no vless inbound, a
\* mutation that gets as far as needing a rebuild ends in an error and leaves
\* the credential table, the disabled set, the token files and the
\* configuration as they were when it took the lock.
C6_UnusableConfigAborts ==
    \A w \in Workers :
        (/\ pc[w] = "unlock"
         /\ op[w] \in Rebuilding
         /\ outcome[w] \notin EarlyReturns
         /\ ~Usable(configFile))
            => (outcome[w] = "error" /\ Snapshot = snap[w])

\* C7: when delete_user(u) answers 200, list_users no longer shows u and the
\* client list no longer holds the identifier u had; a delete_user that finds
\* u absent answers 404, and only create_user(u) brings u back.
C7_DeletedUserIsGone ==
    /\ [](\A w \in Workers :
            Leaving(w, "delete_user") =>
                /\ (outcome[w] = "deleted" /\ name[w] \in DOMAIN TableBefore(w))
                      => /\ name[w] \notin { r.username : r \in ListUsers }
                         /\ TableBefore(w)[name[w]] \notin
                                { c.id : c \in ClientList(configFile) }
                /\ name[w] \notin DOMAIN TableBefore(w)
                      => outcome[w] = "not_found")
    /\ [][\A n \in UrlNames :
             (n \notin DOMAIN Table /\ n \in DOMAIN Table') =>
                 \E w \in Workers :
                     /\ pc[w] = "cu_write_uuids"
                     /\ op[w] = "create_user"
                     /\ name[w] = n]_vars

\* C7 witness: a delete_user answers 200 for a user whose identifier was in
\* the client list when the call took the lock.
C7_Witness ==
    \E w \in Workers :
        /\ Leaving(w, "delete_user")
        /\ outcome[w] = "deleted"
        /\ TableBefore(w)[name[w]] \in
               { c.id : c \in ClientList(snap[w].configFile) }

\* C8: when delete_user(u) answers 200, u is in neither the disabled set nor
\* the traffic totals and no token file embeds the identifier u had; and
\* whenever no writer is inside the lock, the identifier every token file
\* embeds is the identifier of a user of the credential table.
C8_DeleteCascades ==
    /\ \A w \in Workers :
          (/\ Leaving(w, "delete_user")
           /\ outcome[w] = "deleted"
           /\ name[w] \in DOMAIN TableBefore(w))
              => /\ name[w] \notin DisabledSet
                 /\ name[w] \notin DOMAIN totalsFile
                 /\ \A t \in DOMAIN subFiles :
                       subFiles[t].uuid # TableBefore(w)[name[w]]
    /\ NoWriter =>
          \A t \in DOMAIN subFiles :
              subFiles[t].uuid \in { Table[n] : n \in DOMAIN Table }

\* C8 witness: a delete_user answers 200 for a user that was disabled and
\* had a token file when the call took the lock.
C8_Witness ==
    \E w \in Workers :
        /\ Leaving(w, "delete_user")
        /\ outcome[w] = "deleted"
        /\ name[w] \in ReadDisabled(snap[w].disabledFile)
        /\ \E t \in DOMAIN snap[w].subFiles :
              snap[w].subFiles[t].uuid = TableBefore(w)[name[w]]

\* C9: when create_user(u) answers 201, list_users shows exactly one entry
\* for u, with status "active" and a subscription URL that is not null.
C9_IssuedUserListed ==
    \A w \in Workers :
        (Leaving(w, "create_user") /\ outcome[w] = "created") =>
            LET entries == { r \in ListUsers : r.username = name[w] }
            IN /\ Cardinality(entries) = 1
               /\ \A r \in entries :
                     r.status = "active" /\ r.subscription # {}

\* C10: create_user(u) for a username that is in the credential table when
\* the call takes the lock answers 409, and the credential table, the token
\* files and the configuration are then as they were.
C10_DuplicateRejected ==
    \A w \in Workers :
        (Leaving(w, "create_user") /\ name[w] \in DOMAIN TableBefore(w)) =>
            /\ outcome[w] = "conflict"
            /\ StatusOf(outcome[w]) = 409
            /\ uuidsFile = snap[w].uuidsFile
            /\ subFiles = snap[w].subFiles
            /\ configFile = snap[w].configFile

\* C10 witness: a create_user is answered 409 while two users exist.
C10_Witness ==
    \E w \in Workers :
        /\ Leaving(w, "create_user")
        /\ outcome[w] = "conflict"
        /\ Cardinality(uuidsFile) = 2

\* The disabled set as it was when the worker took the lock.
DisabledBefore(w) == Range(snap[w].disabledFile)

\* C11: disable_user(u) answered "disabled" leaves the credential table as it
\* was and adds u to the disabled set; enable_user(u) answered "enabled"
\* leaves the table as it was, takes u out of the disabled set again, and
\* then list_users shows u active and the client list of the configuration
\* contains u with the identifier of the table.
C11_DisableEnableRestores ==
    \A w \in Workers :
        /\ (Leaving(w, "disable_user") /\ outcome[w] = "disabled") =>
              /\ Table = TableBefore(w)
              /\ DisabledSet = DisabledBefore(w) \cup {name[w]}
        /\ (Leaving(w, "enable_user") /\ outcome[w] = "enabled") =>
              /\ Table = TableBefore(w)
              /\ DisabledSet = DisabledBefore(w) \ {name[w]}
              /\ \E r \in ListUsers :
                    r.username = name[w] /\ r.status = "active"
              /\ [id |-> Table[name[w]], email |-> name[w]]
                    \in ClientList(configFile)

\* C11 on the configurations that can be rebuilt: the same statement holds.
C11_RestoresWhenUsable ==
    Usable(configFile) => C11_DisableEnableRestores

\* The number of lines of the disabled file that name n.
Occurrences(file, n) == Cardinality({ i \in 1..Len(file) : file[i] = n })

\* C12 as stated: every disable_user(u) on a user of the credential table is
\* answered "already disabled", and the disabled file then names u once.
C12_DisableAlwaysAlreadyDisabled ==
    \A w \in Workers :
        (Leaving(w, "disable_user") /\ name[w] \in DOMAIN TableBefore(w)) =>
            /\ outcome[w] = "already_disabled"
            /\ Occurrences(disabledFile, name[w]) = 1

\* C12: a disable_user(u) on a user of the credential table is answered
\* "already disabled" exactly when u was in the disabled set when the call
\* took the lock (so the second of two calls in a row is), that answer leaves
\* the files as they were, and after either answer the disabled file names u
\* exactly once.
C12_RepeatedDisableIsAlreadyDisabled ==
    \A w \in Workers :
        (Leaving(w, "disable_user") /\ name[w] \in DOMAIN TableBefore(w)) =>
            /\ (outcome[w] = "already_disabled")
                  <=> (name[w] \in DisabledBefore(w))
            /\ outcome[w] = "already_disabled" =>
                  /\ disabledFile = snap[w].disabledFile
                  /\ configFile = snap[w].configFile
            /\ Occurrences(disabledFile, name[w]) = 1

\* C12 witness: a disable_user of a user that is already disabled is about to
\* answer, next to a second disabled user.
C12_Witness ==
    \E w \in Workers :
        /\ Leaving(w, "disable_user")
        /\ outcome[w] = "already_disabled"
        /\ Len(disabledFile) = 2

C13_UnknownWitness ==
    \E w \in Workers :
        /\ Leaving(w, "reset_traffic")
        /\ outcome[w] = "not_found"
        /\ totalsFile # EmptyDict

\* C14: a worker is at the dispatch of the reload only when it does not hold
\* the lock; the step that releases the lock writes no file and takes the
\* handler to the dispatch exactly when it answers created, deleted, disabled
\* or enabled, which it does whenever it changed the client list of the
\* configuration; the dispatch is entered only from the release, is one step,
\* changes no file and ends the handler (the response is returned without
\* waiting for the reload).
C14_ReloadAfterRelease ==
    /\ [](\A w \in Workers : pc[w] = "restart" => lock # w)
    /\ [][\A w \in Workers :
             /\ (pc[w] = "unlock" /\ pc'[w] # "unlock") =>
                   /\ lock = w /\ lock' = NoWorker
                   /\ files' = files
                   /\ (pc'[w] = "restart") <=>
                         (outcome[w] \in {"created", "deleted", "disabled",
                                          "enabled"})
                   /\ (ClientList(configFile) # ClientList(snap[w].configFile))
                         => pc'[w] = "restart"
                   /\ pc'[w] \in {"restart", "idle"}
             /\ (pc[w] # "restart" /\ pc'[w] = "restart") => pc[w] = "unlock"
             /\ (pc[w] = "restart" /\ pc'[w] # "restart") =>
                   /\ pc'[w] = "idle"
                   /\ files' = files
                   /\ lock' = lock
         ]_vars

\* C14 witness: a worker is at the dispatch of the reload, after a mutation
\* on a configuration that lists clients and with some user disabled, while
\* another writer already holds the lock.
C14_Witness ==
    \E w \in Workers :
        /\ pc[w] = "restart"
        /\ lock \notin {w, NoWorker}
        /\ DisabledSet # {}
        /\ Usable(configFile)

\* C15: create_user rejects a request with 400 before the lock, changing no
\* file, exactly when the stripped username is empty, longer than
\* MaxUsernameLen, or has a character other than letters, digits, "_" and
\* "-"; every other username goes on to the locked region.
C15_RejectsExactlyMalformed ==
    [][\A w \in Workers : \A raw \in RawUsernames :
          LET username == Strip(raw)
              malformed ==
                  \/ username = <<>>
                  \/ Len(username) > MaxUsernameLen
                  \/ \E i \in 1..Len(username) :
                        username[i] \notin AlnumChars \cup {"_", "-"}
          IN /\ InvalidUsername(w, raw) =>
                   /\ malformed
                   /\ StatusOf(outcome'[w]) = 400
                   /\ files' = files
             /\ CreateUser(w, raw) => ~malformed
    ]_vars

\* C15 without the usernames made only of "_" and "-": the rejected
\* usernames are the malformed ones and those without a letter or digit.
C15_RejectsMalformedOrSeparatorsOnly ==
    [][\A w \in Workers : \A raw \in RawUsernames :
          LET username == Strip(raw)
              malformed ==
                  \/ username = <<>>
                  \/ Len(username) > MaxUsernameLen
                  \/ \E i \in 1..Len(username) :
                        username[i] \notin AlnumChars \cup {"_", "-"}
              separators ==
                  \A i \in 1..Len(username) : username[i] \in {"_", "-"}
          IN /\ InvalidUsername(w, raw) =>
                   /\ malformed \/ separators
                   /\ StatusOf(outcome'[w]) = 400
                   /\ files' = files
             /\ CreateUser(w, raw) => ~malformed /\ ~separators
    ]_vars

\* The subscription tokens get_subscription_url may find for user n.
TokensOf(n) == FindSubscriptionTokens(uuidsFile, subFiles, n)

\* C16: whenever no writer is inside the lock every user of the credential
\* table has exactly one token whose descriptor holds its identifier, and a
\* step changes the tokens of a user that stays in the table with its
\* identifier only when it is the minting of that user's create_user (from
\* none to one) or the unlink of that user's delete_user.
C16_OneTokenForLife ==
    /\ [](NoWriter =>
            \A n \in DOMAIN Table : Cardinality(TokensOf(n)) = 1)
    /\ [][\A n \in DOMAIN Table :
             (n \in DOMAIN Table' /\ Table'[n] = Table[n]
                /\ TokensOf(n)' # TokensOf(n)) =>
                \E w \in Workers :
                    /\ name[w] = n
                    /\ \/ /\ op[w] = "create_user"
                          /\ TokensOf(n) = {}
                          /\ Cardinality(TokensOf(n)') = 1
                       \/ /\ op[w] = "delete_user"
                          /\ TokensOf(n)' = {}
         ]_vars

\* C16 on the configurations a descriptor can be built from: the same
\* statement holds.
C16_OneTokenWhenMintable ==
    (configFile.parses /\ FirstReality(configFile.inbounds) # 0) =>
        (NoWriter => \A n \in DOMAIN Table : Cardinality(TokensOf(n)) = 1)

\* C16, the part about change: the tokens of a user that stays in the table
\* change only at the minting of its create_user and the unlink of its
\* delete_user.
C16_TokenKept ==
    [][\A n \in DOMAIN Table :
          (n \in DOMAIN Table' /\ Table'[n] = Table[n]
             /\ TokensOf(n)' # TokensOf(n)) =>
             \E w \in Workers :
                 /\ name[w] = n
                 /\ \/ /\ op[w] = "create_user"
                       /\ TokensOf(n) = {}
                       /\ Cardinality(TokensOf(n)') = 1
                    \/ /\ op[w] = "delete_user"
                       /\ TokensOf(n)' = {}
      ]_vars

\* C17: a create_user that finds no inbound with realitySettings in a
\* configuration that parses stores no token file, and a create_user never
\* answers 201 for a user it minted no token for.
C17_NoTokenNoSuccess ==
    \A w \in Workers :
        Leaving(w, "create_user") =>
            /\ (configFile.parses /\ FirstReality(configFile.inbounds) = 0)
                  => subFiles = snap[w].subFiles
            /\ outcome[w] = "created" =>
                  /\ token[w] # NoToken
                  /\ TokensOf(name[w]) # {}

\* C17, the part that holds: without an inbound that has realitySettings no
\* token file is stored.
C17_NoTokenStored ==
    \A w \in Workers :
        (Leaving(w, "create_user") /\ configFile.parses
           /\ FirstReality(configFile.inbounds) = 0) =>
            /\ subFiles = snap[w].subFiles
            /\ token[w] = NoToken

\* C18: from the release of the lock by the create_user that returned it
\* until the delete_user that removes the user, the identifier the credential
\* table holds for the user is the one that create_user returned, and so is
\* the identifier of every client the configuration lists for the user.
C18_IdentifierImmutable ==
    \A n \in UrlNames :
        issued[n] # NoUuid =>
            /\ n \in DOMAIN Table
            /\ Table[n] = issued[n]
            /\ \A c \in ClientList(configFile) :
                  c.email = n => c.id = issued[n]

\* C18 witness: two users hold the identifiers their create_user calls
\* returned, one is listed in the configuration with its identifier, and a
\* writer that has disabled the other one is about to rebuild.
C18_Witness ==
    \E n \in UrlNames : \E w \in Workers :
        /\ issued[n] # NoUuid
        /\ [id |-> issued[n], email |-> n] \in ClientList(configFile)
        /\ pc[w] = "dis_rebuild"
        /\ name[w] # n
        /\ issued[name[w]] # NoUuid
        /\ issued[name[w]] < issued[n]

\* C19: delete_user, disable_user, enable_user and reset_traffic on a name
\* that is not in the credential table answer 404, disable_user on a disabled
\* user and enable_user on a user that is not disabled answer 200 with the
\* already-message; when such a call is about to release the lock the
\* credential table, the disabled set, the token files and the configuration
\* are as they were when it took the lock, none of its steps writes a file
\* (totals.json included), and after the release it returns without
\* dispatching a reload.
C19_NoOpChangesNothing ==
    /\ [](\A w \in Workers :
            (pc[w] = "unlock" /\ op[w] \in NameOps) =>
                /\ (name[w] \notin DOMAIN TableBefore(w)) =>
                      /\ outcome[w] = "not_found"
                      /\ StatusOf(outcome[w]) = 404
                /\ (op[w] = "disable_user" /\ name[w] \in DOMAIN TableBefore(w)
                      /\ name[w] \in DisabledBefore(w)) =>
                      /\ outcome[w] = "already_disabled"
                      /\ StatusOf(outcome[w]) = 200
                /\ (op[w] = "enable_user" /\ name[w] \in DOMAIN TableBefore(w)
                      /\ name[w] \notin DisabledBefore(w)) =>
                      /\ outcome[w] = "already_enabled"
                      /\ StatusOf(outcome[w]) = 200
                /\ (outcome[w] \in {"not_found", "already_disabled",
                                    "already_enabled"}) =>
                      /\ uuidsFile = snap[w].uuidsFile
                      /\ disabledFile = snap[w].disabledFile
                      /\ subFiles = snap[w].subFiles
                      /\ configFile = snap[w].configFile)
    /\ [][\A w \in Workers :
             /\ (pc[w] \in {"lock", "read_uuids", "dis_read", "en_read"}
                   /\ pc'[w] # pc[w]) => files' = files
             /\ (pc[w] = "unlock" /\ pc'[w] # "unlock"
                   /\ outcome[w] \in {"not_found", "already_disabled",
                                      "already_enabled"}) =>
                   /\ files' = files
                   /\ pc'[w] = "idle"
         ]_vars

\* C19 witness: an enable_user of a user that is not disabled is about to
\* answer "already enabled" while another user is disabled and the ledger
\* holds a record.
C19_Witness ==
    \E w \in Workers :
        /\ Leaving(w, "enable_user")
        /\ outcome[w] = "already_enabled"
        /\ DisabledSet # {}
        /\ totalsFile # EmptyDict
        /\ Usable(configFile)

\* C19 witness of the 404: a disable_user on an unknown name is about to
\* answer while the table holds a user.
C19_NotFoundWitness ==
    \E w \in Workers :
        /\ Leaving(w, "disable_user")
        /\ outcome[w] = "not_found"
        /\ Table # EmptyDict

\* ------------------------------------------------------------- scheduling

\* A step of worker w inside the locked region, the release included: a
\* handler that holds the lock runs on (the files are local, no step waits).
CriticalSection(w) ==
    \/ CreateReadUuids(w)
    \/ CreateWriteUuids(w)
    \/ CreateSubscriptionFile(w)
    \/ CreateRebuild(w)
    \/ ReadUuidsOrNotFound(w)
    \/ DeleteUnlink(w)
    \/ DeleteWriteUuids(w)
    \/ DeleteDisabled(w)
    \/ DeleteTotals(w)
    \/ DeleteRebuild(w)
    \/ DisableRead(w)
    \/ DisableWrite(w)
    \/ DisableRebuild(w)
    \/ EnableRead(w)
    \/ EnableWrite(w)
    \/ EnableRebuild(w)
    \/ ResetTotals(w)
    \/ Unlock(w)

\* flock(LOCK_EX) of worker w returning, for whichever request it serves.
AcquireLock(w) ==
    \/ \E raw \in RawUsernames : CreateUser(w, raw)
    \/ \E o \in NameOps : \E n \in UrlNames : Request(w, o, n)

\* Every holder finishes its critical section, and a worker blocked in
\* flock(LOCK_EX) is not passed over forever while the lock keeps being
\* released.
FairSpec ==
    /\ Spec
    /\ \A w \in Workers :
          /\ WF_vars(CriticalSection(w))
          /\ SF_vars(AcquireLock(w))

C20_EarlyReturnWitness ==
    \E w \in Workers : \E v \in Workers :
        /\ pc[w] = "unlock"
        /\ outcome[w] = "conflict"
        /\ lock = w
        /\ pc[v] = "lock"

====
